---- MODULE Spec2Model ----
(***************************************************************************)
(* A model of plugins/meta/vrf/vrf.go: the VRF helpers of the CNI vrf      *)
(* plugin (findVRF, createVRF, addInterface, findFreeRoutingTableID,       *)
(* resetMaster, getGlobalAddresses) running against the links, addresses   *)
(* and routes of one network namespace.                                    *)
(***************************************************************************)
EXTENDS Integers, Sequences, FiniteSets, TLC

\* ------------------------------------------------------------------ bounds

\* Width of the routing table identifier in bits.  The code uses uint32;
\* the model scales the width down so that the whole identifier space can be
\* enumerated.
IDBits == 2

\* Longest link list handed to findFreeRoutingTableID as a pure function.
MaxLinks == 3

\* The number of CNI commands the tuning plugin is run with.
MaxOps == 3

\* The number of keys of a sysctl object, and of calls within one process.
MaxKeys == 3
MaxCalls == 2

\* ------------------------------------------------------- program constants

\* math.MaxUint32 for the scaled width.
MaxUint32 == 2^IDBits - 1

\* The representable, valid table identifiers (0 is RT_TABLE_UNSPEC).
TableIDs == 1..MaxUint32

NoErr == "nil"

\* One retry more than the code allows.
maxRetries_OneMore == 8 + 1

\* maxRetries := 8
maxRetries == 8

\* backoffBase := 10 * time.Millisecond, in milliseconds
backoffBase == 10

\* unix.RT_TABLE_MAIN, the table of the routes of an interface without master
MainTable == 254

\* ------------------------------------------------------------------- links

\* netlink.Link: a VRF carries a routing table, any other device does not.
VrfLink(name, index, table) ==
  [name |-> name, index |-> index, kind |-> "vrf", table |-> table, master |-> 0,
   up |-> TRUE]

DeviceLink(name, index, master) ==
  [name |-> name, index |-> index, kind |-> "device", table |-> 0, master |-> master,
   up |-> TRUE]

\* A nil link.
NilLink ==
  [name |-> "", index |-> 0, kind |-> "nil", table |-> 0, master |-> 0, up |-> FALSE]

\* l.(*netlink.Vrf)
IsVrf(l) == l.kind = "vrf"

SeqRange(s) == {s[k] : k \in 1..Len(s)}

\* --------------------------------------------------- findFreeRoutingTableID

\* A scan of the links that stops one short of the end.
takenTables_SkipsLast(ls) ==
  {ls[k].table : k \in {j \in 1..(Len(ls) - 1) : IsVrf(ls[j])}}

\* takenTables: the Table of every link that is a *netlink.Vrf.
takenTables(ls) == {ls[k].table : k \in {j \in 1..Len(ls) : IsVrf(ls[j])}}

\* for res := uint32(1); res < math.MaxUint32; res++
RECURSIVE scanFreeTable(_, _)
scanFreeTable(res, taken) ==
  IF ~(res < MaxUint32)
    THEN [id |-> 0, err |-> "findFreeRoutingTableID: Failed to find an available routing id"]
    ELSE IF res \notin taken
           THEN [id |-> res, err |-> NoErr]
           ELSE scanFreeTable(res + 1, taken)

findFreeRoutingTableID(ls) == scanFreeTable(1, takenTables(ls))

\* ------------------------------------------------------- findVRF, createVRF

\* The names a caller passes: two VRF names and one plain interface.
VrfNames == {"vrf-blue", "vrf-red"}
IntfName == "eth1"
LinkNames == VrfNames \cup {IntfName}

\* netlinksafe.LinkByName: the link of that name, NilLink when there is none
\* (the lookup fails exactly when no link has the name).
LinkByName(ls, name) ==
  IF \E k \in 1..Len(ls) : ls[k].name = name
    THEN ls[CHOOSE k \in 1..Len(ls) : ls[k].name = name]
    ELSE NilLink

\* findVRF without the type assertion.
findVRF_NoTypeCheck(ls, name) ==
  LET link == LinkByName(ls, name) IN
  IF link = NilLink
    THEN [err |-> "Link not found", vrf |-> NilLink]
    ELSE [err |-> NoErr, vrf |-> link]

\* findVRF: the lookup error, the type error, or the VRF.
findVRF(ls, name) ==
  LET link == LinkByName(ls, name) IN
  IF link = NilLink
    THEN [err |-> "Link not found", vrf |-> NilLink]
    ELSE IF ~IsVrf(link)
           THEN [err |-> "Netlink is not a VRF", vrf |-> NilLink]
           ELSE [err |-> NoErr, vrf |-> link]

\* createVRF asking the allocator also when a VRF has the table it was given.
createVRF_AvoidsCollision(ls, name, tableID, listOK, addOK, upOK) ==
  IF ~listOK
    THEN [links |-> ls, err |-> "createVRF: Failed to find links", vrf |-> NilLink, allocs |-> 0]
    ELSE
      LET alloc == IF tableID = 0 \/ tableID \in takenTables(ls)
                     THEN findFreeRoutingTableID(ls)
                     ELSE [id |-> tableID, err |-> NoErr]
          vrf == [VrfLink(name, Len(ls) + 1, alloc.id) EXCEPT !.up = FALSE]
          allocs == IF tableID = 0 \/ tableID \in takenTables(ls) THEN 1 ELSE 0
      IN
      IF alloc.err # NoErr
        THEN [links |-> ls, err |-> alloc.err, vrf |-> NilLink, allocs |-> allocs]
        ELSE IF ~addOK \/ LinkByName(ls, name) # NilLink
               THEN [links |-> ls, err |-> "could not add VRF", vrf |-> NilLink, allocs |-> allocs]
               ELSE IF ~upOK
                      THEN [links |-> Append(ls, vrf),
                            err |-> "could not set link up for VRF", vrf |-> NilLink,
                            allocs |-> allocs]
                      ELSE [links |-> Append(ls, [vrf EXCEPT !.up = TRUE]),
                            err |-> NoErr, vrf |-> [vrf EXCEPT !.up = TRUE],
                            allocs |-> allocs]

\* createVRF against the link list ls.  listOK, addOK and upOK say whether the
\* kernel accepts LinkList, LinkAdd and LinkSetUp; LinkAdd is refused in any
\* case when the name is taken.  Yields the new link list, the error, the
\* VRF returned and the number of calls of findFreeRoutingTableID.
createVRF(ls, name, tableID, listOK, addOK, upOK) ==
  IF ~listOK
    THEN [links |-> ls, err |-> "createVRF: Failed to find links", vrf |-> NilLink, allocs |-> 0]
    ELSE
      LET alloc == IF tableID = 0
                     THEN findFreeRoutingTableID(ls)
                     ELSE [id |-> tableID, err |-> NoErr]
          vrf == [VrfLink(name, Len(ls) + 1, alloc.id) EXCEPT !.up = FALSE]
          allocs == IF tableID = 0 THEN 1 ELSE 0
      IN
      IF alloc.err # NoErr
        THEN [links |-> ls, err |-> alloc.err, vrf |-> NilLink, allocs |-> allocs]
        ELSE IF ~addOK \/ LinkByName(ls, name) # NilLink
               THEN [links |-> ls, err |-> "could not add VRF", vrf |-> NilLink, allocs |-> allocs]
               ELSE IF ~upOK
                      THEN [links |-> Append(ls, vrf),
                            err |-> "could not set link up for VRF", vrf |-> NilLink,
                            allocs |-> allocs]
                      ELSE [links |-> Append(ls, [vrf EXCEPT !.up = TRUE]),
                            err |-> NoErr, vrf |-> [vrf EXCEPT !.up = TRUE],
                            allocs |-> allocs]

\* The set T of a link list: the tables of the links that are VRFs.
VrfTablesOf(ls) == {l.table : l \in {x \in SeqRange(ls) : x.kind = "vrf"}}

\* min(N>=1 \ T)
SmallestFree(T) ==
  CHOOSE n \in 1..(Cardinality(T) + 1) : n \notin T /\ \A m \in 1..(n - 1) : m \in T

\* The table createVRF(name, tableID) has to give the VRF when the links
\* listed are ls: tableID itself, or the smallest free one for tableID = 0.
TableToAssign(ls, tableID) ==
  IF tableID # 0 THEN tableID ELSE SmallestFree(VrfTablesOf(ls))

\* ------------------------------------------------- addresses and routes

Nil == "nil"

\* netlink.Addr: the addresses an interface of the model can carry.  Two
\* global IPv6 addresses, the link-local one, and one IPv4 address.
G1 == [ip |-> "2001:db8::10", plen |-> 64, scope |-> "universe", family |-> "v6"]
G2 == [ip |-> "2001:db8::20", plen |-> 64, scope |-> "universe", family |-> "v6"]
LL == [ip |-> "fe80::1", plen |-> 64, scope |-> "link", family |-> "v6"]
V4 == [ip |-> "10.0.0.1", plen |-> 24, scope |-> "universe", family |-> "v4"]
NilAddr == [ip |-> Nil, plen |-> 0, scope |-> Nil, family |-> Nil]

\* An address of host scope, and an address with the host prefix length.
HS == [ip |-> "fd00::1", plen |-> 128, scope |-> "host", family |-> "v6"]
AsHost(a) == [a EXCEPT !.plen = 128]

\* netlink.Route
Route(dst, plen, src, gw, table, link, scope) ==
  [dst |-> [ip |-> dst, plen |-> plen], src |-> src, gw |-> gw, table |-> table,
   link |-> link, scope |-> scope]
NilRoute == Route(Nil, 0, Nil, Nil, 0, 0, Nil)

\* The routes the interface (link index 1) can own before it is enslaved:
\* two global routes with a source, a default route without source, and a
\* connected (link scope) route.
R1 == Route("10.1.0.0", 16, "10.0.0.1", "10.0.0.254", MainTable, 1, "universe")
R2 == Route("2001:db8:1::", 48, "2001:db8::10", "2001:db8::1", MainTable, 1, "universe")
R3 == Route("0.0.0.0", 0, Nil, "10.0.0.254", MainTable, 1, "universe")
R4 == Route("10.0.0.0", 24, "10.0.0.1", Nil, MainTable, 1, "link")

\* All enumerations of a finite set as a sequence: the orders in which the
\* kernel may list it.
Perms(S) ==
  {s \in [1..Cardinality(S) -> S] : \A x \in S : \E k \in 1..Cardinality(S) : s[k] = x}

\* netlinksafe.AddrList(link, family) on the address set as of one link.
AddrList(as, family) == {a \in as : a.family = family}

\* getGlobalAddresses, applied to the list AddrList returned: the addresses
\* whose scope is SCOPE_UNIVERSE, in listing order.
getGlobalAddresses(listed) ==
  SelectSeq(listed, LAMBDA addr : addr.scope = "universe")

\* An equality of addresses that looks at the IP only.
AddrEqual_IPOnly(a, x) == a.ip = x.ip

\* netlink.Addr.Equal: same IP and same prefix length.
AddrEqual(a, x) == a.ip = x.ip /\ a.plen = x.plen

\* The inner loop of the repair taking every address as found.
foundAfter_Always(toFind, after) == TRUE

\* for _, current := range afterAddresses { if toFind.Equal(current) ... }
foundAfter(toFind, after) ==
  \E n \in 1..Len(after) : AddrEqual(toFind, after[n])

\* netlinksafe.RouteListFiltered(FAMILY_ALL, filter, mask) on the route set
\* rs: a route is listed when it agrees with the filter on every field the
\* mask names.
RouteListFiltered(rs, filter, mask) ==
  {r \in rs :
     /\ ("OIF" \in mask => r.link = filter.link)
     /\ ("SCOPE" \in mask => r.scope = filter.scope)
     /\ ("TABLE" \in mask => r.table = filter.table)
     /\ ("DST" \in mask => r.dst = filter.dst)}

\* The filter of the route snapshot: the interface's routes of universe scope.
snapshotFilter(i) == [NilRoute EXCEPT !.link = i.index, !.scope = "universe"]
snapshotMask == {"OIF", "SCOPE"}

\* globalRoutes: the listed routes whose Src is not nil, in listing order.
globalRoutesOf(r) == SelectSeq(r, LAMBDA route : route.src # Nil)

\* The filter of a convergence query: the restored address as a /128
\* destination, in the VRF's table, through the interface.
convergenceFilter(toFind, vrf, i) ==
  [NilRoute EXCEPT !.dst = [ip |-> toFind.ip, plen |-> 128],
                   !.table = vrf.table, !.link = i.index]
convergenceMask == {"OIF", "TABLE", "DST"}

\* A backoff that starts at twice the base.
\* A pause that grows by backoffBase with every retry.
backoff_Linear(retryCount) == backoffBase * (retryCount + 1)

backoff_Doubled(retryCount) == backoffBase * 2^(retryCount + 1)

\* backoffBase * time.Duration(1<<retryCount), in milliseconds
backoff(retryCount) == backoffBase * 2^retryCount

\* A replay that leaves the route in its original table.
replayRoute_KeepsTable(route, vrf) == route

\* r := route; r.Table = int(vrf.Table)
replayRoute(route, vrf) == [route EXCEPT !.table = vrf.table]

\* Whether the link looked up already has a master.
hasMaster_Never(i) == FALSE

\* i.Attrs().MasterIndex != 0
hasMaster(i) == i.master # 0

\* ------------------------------------------------------- the kernel's side

\* The link list with the master of link number index set to master.
WithMaster(ls, index, master) ==
  [k \in 1..Len(ls) |-> IF ls[k].index = index THEN [ls[k] EXCEPT !.master = master]
                                                 ELSE ls[k]]

LinkByIndex(ls, index) ==
  IF \E k \in 1..Len(ls) : ls[k].index = index
    THEN ls[CHOOSE k \in 1..Len(ls) : ls[k].index = index]
    ELSE NilLink

\* The global IPv6 addresses: what the kernel may drop when the interface is
\* cycled by a change of master (net.ipv6.conf.all.keep_addr_on_down unset).
Droppable(as) == {a \in as : a.family = "v6" /\ a.scope = "universe"}

\* The routes left when the kernel flushes those of link number index.
Flushed(rs, index) == {r \in rs : r.link # index}

\* 'ip route replace': the route takes the place of any route with the same
\* destination in the same table.
Replaced(rs, r) == {x \in rs : ~(x.dst = r.dst /\ x.table = r.table)} \cup {r}

\* The local route the kernel installs for an address of an enslaved
\* interface: the address as /128, in the master's table.
HostRoute(a, table, index) == Route(a.ip, 128, Nil, Nil, table, index, "universe")

\* ------------------------------------------------------- the tuning plugin

defaultDataDir == "/run/cni/tuning"

\* A Go pointer to a bool or to an int: nil, or a value.
NilBool == [set |-> FALSE, val |-> FALSE]
PtrBool(b) == [set |-> TRUE, val |-> b]
NilInt == [set |-> FALSE, val |-> 0]
PtrInt(n) == [set |-> TRUE, val |-> n]

\* Two hardware addresses, as bytes.
HW1 == <<2, 0, 0, 0, 0, 1>>
HW2 == <<2, 0, 0, 0, 0, 10>>

\* net.HardwareAddr.String(): lower-case hexadecimal bytes with colons, the
\* empty string for an empty address.
HardwareAddrString(hw) ==
  CASE hw = HW1 -> "02:00:00:00:00:01"
    [] hw = HW2 -> "02:00:00:00:00:0a"
    [] OTHER -> ""

\* net.ParseMAC: colons or hyphens, either case; anything else is an error.
ParseMAC(s) ==
  CASE s = "02:00:00:00:00:01" -> [ok |-> TRUE, addr |-> HW1]
    [] s \in {"02:00:00:00:00:0a", "02:00:00:00:00:0A", "02-00-00-00-00-0a"} ->
         [ok |-> TRUE, addr |-> HW2]
    [] OTHER -> [ok |-> FALSE, addr |-> <<>>]

\* The attributes of the container's interface the plugin reads and sets:
\* link.Attrs() with RawFlags&IFF_ALLMULTI as a boolean.
Nic(hw, promisc, mtu, allmulti, txQLen) ==
  [HardwareAddr |-> hw, Promisc |-> promisc, MTU |-> mtu, Allmulti |-> allmulti,
   TxQLen |-> txQLen]
NoNic == Nic(<<>>, 0, 0, FALSE, 0)

Attrs == {"mac", "promisc", "mtu", "allmulti", "txQLen"}

\* The attribute attr of an interface.
AttrOf(nic, attr) ==
  CASE attr = "mac" -> [s |-> HardwareAddrString(nic.HardwareAddr), n |-> 0]
    [] attr = "promisc" -> [s |-> "", n |-> nic.Promisc]
    [] attr = "mtu" -> [s |-> "", n |-> nic.MTU]
    [] attr = "allmulti" -> [s |-> "", n |-> IF nic.Allmulti THEN 1 ELSE 0]
    [] OTHER -> [s |-> "", n |-> nic.TxQLen]

\* TuningConf, the fields of the interface attributes, and whether the
\* configuration carries a prevResult.
TuningConf(dataDir, mac, promisc, mtu, txQLen, allmulti, prev) ==
  [DataDir |-> dataDir, Mac |-> mac, Promisc |-> promisc, Mtu |-> mtu,
   TxQLen |-> txQLen, Allmulti |-> allmulti, RawPrevResult |-> prev]

\* parseConf on a configuration without env args, runtimeConfig and args.
parseConf(data) ==
  [data EXCEPT !.DataDir = IF data.DataDir = "" THEN defaultDataDir ELSE data.DataDir]

\* configToRestore{}
configToRestore(mac, promisc, mtu, allmulti, txQLen) ==
  [Mac |-> mac, Promisc |-> promisc, Mtu |-> mtu, Allmulti |-> allmulti, TxQLen |-> txQLen]

\* createBackup, the part that fills config from the link: a field stays
\* zero unless the configuration asks for a change of its attribute.
backupConfig(link, tuningConf) ==
  configToRestore(
    IF tuningConf.Mac # "" THEN HardwareAddrString(link.HardwareAddr) ELSE "",
    IF tuningConf.Promisc THEN PtrBool(link.Promisc # 0) ELSE NilBool,
    IF tuningConf.Mtu # 0 THEN link.MTU ELSE 0,
    IF tuningConf.Allmulti.set THEN PtrBool(link.Allmulti) ELSE NilBool,
    IF tuningConf.TxQLen.set THEN PtrInt(link.TxQLen) ELSE NilInt)

\* json.MarshalIndent(config): the JSON object as a function from its keys;
\* omitempty leaves out an empty string, a zero int and a nil pointer.
MarshalIndent(config) ==
  LET keys == {k \in Attrs :
                 \/ k = "mac" /\ config.Mac # ""
                 \/ k = "promisc" /\ config.Promisc.set
                 \/ k = "mtu" /\ config.Mtu # 0
                 \/ k = "allmulti" /\ config.Allmulti.set
                 \/ k = "txQLen" /\ config.TxQLen.set}
  IN [k \in keys |->
        CASE k = "mac" -> [s |-> config.Mac, n |-> 0, b |-> FALSE]
          [] k = "promisc" -> [s |-> "", n |-> 0, b |-> config.Promisc.val]
          [] k = "mtu" -> [s |-> "", n |-> config.Mtu, b |-> FALSE]
          [] k = "allmulti" -> [s |-> "", n |-> 0, b |-> config.Allmulti.val]
          [] OTHER -> [s |-> "", n |-> config.TxQLen.val, b |-> FALSE]]

\* json.Unmarshal(file, &config) into configToRestore{}: a key that is not
\* in the file leaves the zero value.
Unmarshal(file) ==
  configToRestore(
    IF "mac" \in DOMAIN file THEN file["mac"].s ELSE "",
    IF "promisc" \in DOMAIN file THEN PtrBool(file["promisc"].b) ELSE NilBool,
    IF "mtu" \in DOMAIN file THEN file["mtu"].n ELSE 0,
    IF "allmulti" \in DOMAIN file THEN PtrBool(file["allmulti"].b) ELSE NilBool,
    IF "txQLen" \in DOMAIN file THEN PtrInt(file["txQLen"].n) ELSE NilInt)

\* path.Join(backupPath, containerID+"_"+ifName+".json")
BackupFile(backupPath, containerID, ifName) ==
  backupPath \o "/" \o containerID \o "_" \o ifName \o ".json"

\* The file system: the directories and the files with their content.
NoFS == [dirs |-> {}, files |-> <<>>]
WriteFile(fs, name, data) ==
  [fs EXCEPT !.files = [f \in DOMAIN fs.files \cup {name} |->
                          IF f = name THEN data ELSE fs.files[f]]]
Remove(fs, name) ==
  [fs EXCEPT !.files = [f \in DOMAIN fs.files \ {name} |-> fs.files[f]]]

\* strings.Join(errStr, "; ")
RECURSIVE Join(_)
Join(errStr) ==
  IF Len(errStr) = 0 THEN ""
  ELSE IF Len(errStr) = 1 THEN errStr[1]
  ELSE errStr[1] \o "; " \o Join(Tail(errStr))

\* The result of one change* function on the interface nic.
Changed(nic) == [nic |-> nic, err |-> NoErr]
NotChanged(nic, err) == [nic |-> nic, err |-> err]

\* changeMacAddr and the other change* functions on the interface nic; linkOK
\* says whether LinkByName finds the interface, setOK whether the kernel
\* accepts the new value.
changeMacAddr(nic, newMacAddr, linkOK, setOK) ==
  IF ~ParseMAC(newMacAddr).ok THEN NotChanged(nic, "invalid args for MAC addr")
  ELSE IF ~linkOK THEN NotChanged(nic, "failed to get")
  ELSE IF ~setOK THEN NotChanged(nic, "LinkSetHardwareAddr refused")
  ELSE Changed([nic EXCEPT !.HardwareAddr = ParseMAC(newMacAddr).addr])

changePromisc(nic, val, linkOK, setOK) ==
  IF ~linkOK THEN NotChanged(nic, "failed to get")
  ELSE IF ~setOK THEN NotChanged(nic, "SetPromisc refused")
  ELSE Changed([nic EXCEPT !.Promisc = IF val THEN 1 ELSE 0])

changeMtu(nic, mtu, linkOK, setOK) ==
  IF ~linkOK THEN NotChanged(nic, "failed to get")
  ELSE IF ~setOK THEN NotChanged(nic, "LinkSetMTU refused")
  ELSE Changed([nic EXCEPT !.MTU = mtu])

changeAllmulti(nic, val, linkOK, setOK) ==
  IF ~linkOK THEN NotChanged(nic, "failed to get")
  ELSE IF ~setOK THEN NotChanged(nic, "LinkSetAllmulticast refused")
  ELSE Changed([nic EXCEPT !.Allmulti = val])

changeTxQLen(nic, txQLen, linkOK, setOK) ==
  IF ~linkOK THEN NotChanged(nic, "failed to get")
  ELSE IF ~setOK THEN NotChanged(nic, "LinkSetTxQLen refused")
  ELSE Changed([nic EXCEPT !.TxQLen = txQLen])

\* createBackup on the file system fs and the interface link; mkdirOK and
\* writeOK say whether os.MkdirAll and os.WriteFile succeed.
createBackup(fs, link, ifName, containerID, backupPath, tuningConf, linkOK, mkdirOK, writeOK) ==
  LET data == MarshalIndent(backupConfig(link, tuningConf))
      made == [fs EXCEPT !.dirs = @ \cup {backupPath}]
  IN
  IF ~linkOK THEN [fs |-> fs, err |-> "failed to get"]
  ELSE IF backupPath \notin fs.dirs /\ ~mkdirOK
    THEN [fs |-> fs, err |-> "failed to create backup directory"]
  ELSE IF ~writeOK THEN [fs |-> made, err |-> "failed to save file"]
  ELSE [fs |-> WriteFile(made, BackupFile(backupPath, containerID, ifName), data),
        err |-> NoErr]

\* One change of cmdAdd, after the state s of the changes before it: skipped
\* when an earlier one failed or the configuration does not ask for it.
AddStep(s, attr, requested, r) ==
  IF s.err # NoErr \/ ~requested THEN s
  ELSE IF r.err # NoErr THEN [s EXCEPT !.err = r.err]
  ELSE [nic |-> r.nic, err |-> NoErr, changed |-> s.changed \cup {attr}]

\* cmdAdd, were the backup taken of the interface after the changes.
cmdAdd_BackupAfterChanges(fs, nic, containerID, ifName, data, linkOK, mkdirOK, writeOK, refused) ==
  LET tuningConf == parseConf(data)
      wanted == \/ tuningConf.Mac # "" \/ tuningConf.Mtu # 0 \/ tuningConf.Promisc
                \/ tuningConf.Allmulti.set \/ tuningConf.TxQLen.set
      s0 == [nic |-> nic, err |-> NoErr, changed |-> {}]
      s1 == AddStep(s0, "mac", tuningConf.Mac # "",
                    changeMacAddr(s0.nic, tuningConf.Mac, linkOK, "mac" \notin refused))
      s2 == AddStep(s1, "promisc", tuningConf.Promisc,
                    changePromisc(s1.nic, TRUE, linkOK, "promisc" \notin refused))
      s3 == AddStep(s2, "mtu", tuningConf.Mtu # 0,
                    changeMtu(s2.nic, tuningConf.Mtu, linkOK, "mtu" \notin refused))
      s4 == AddStep(s3, "allmulti", tuningConf.Allmulti.set,
                    changeAllmulti(s3.nic, tuningConf.Allmulti.val, linkOK,
                                   "allmulti" \notin refused))
      s5 == AddStep(s4, "txQLen", tuningConf.TxQLen.set,
                    changeTxQLen(s4.nic, tuningConf.TxQLen.val, linkOK,
                                 "txQLen" \notin refused))
      b == IF wanted
             THEN createBackup(fs, s5.nic, ifName, containerID, tuningConf.DataDir,
                               tuningConf, linkOK, mkdirOK, writeOK)
             ELSE [fs |-> fs, err |-> NoErr]
  IN
  IF ~tuningConf.RawPrevResult
    THEN [fs |-> fs, nic |-> nic, err |-> "Required prevResult missing", changed |-> {}]
  ELSE IF b.err # NoErr
    THEN [fs |-> b.fs, nic |-> nic, err |-> b.err, changed |-> {}]
  ELSE [fs |-> b.fs, nic |-> s5.nic, err |-> s5.err, changed |-> s5.changed]

\* cmdAdd without the sysctl part: the backup, then the changes in the order
\* MAC, promisc, MTU, allmulti, txQLen, up to the first that fails.  refused
\* holds the attributes whose new value the kernel does not accept.  Yields
\* the file system, the interface, the error and the attributes it has set.
cmdAdd(fs, nic, containerID, ifName, data, linkOK, mkdirOK, writeOK, refused) ==
  LET tuningConf == parseConf(data)
      wanted == \/ tuningConf.Mac # "" \/ tuningConf.Mtu # 0 \/ tuningConf.Promisc
                \/ tuningConf.Allmulti.set \/ tuningConf.TxQLen.set
      b == IF wanted
             THEN createBackup(fs, nic, ifName, containerID, tuningConf.DataDir,
                               tuningConf, linkOK, mkdirOK, writeOK)
             ELSE [fs |-> fs, err |-> NoErr]
      s0 == [nic |-> nic, err |-> NoErr, changed |-> {}]
      s1 == AddStep(s0, "mac", tuningConf.Mac # "",
                    changeMacAddr(s0.nic, tuningConf.Mac, linkOK, "mac" \notin refused))
      s2 == AddStep(s1, "promisc", tuningConf.Promisc,
                    changePromisc(s1.nic, TRUE, linkOK, "promisc" \notin refused))
      s3 == AddStep(s2, "mtu", tuningConf.Mtu # 0,
                    changeMtu(s2.nic, tuningConf.Mtu, linkOK, "mtu" \notin refused))
      s4 == AddStep(s3, "allmulti", tuningConf.Allmulti.set,
                    changeAllmulti(s3.nic, tuningConf.Allmulti.val, linkOK,
                                   "allmulti" \notin refused))
      s5 == AddStep(s4, "txQLen", tuningConf.TxQLen.set,
                    changeTxQLen(s4.nic, tuningConf.TxQLen.val, linkOK,
                                 "txQLen" \notin refused))
  IN
  IF ~tuningConf.RawPrevResult
    THEN [fs |-> fs, nic |-> nic, err |-> "Required prevResult missing", changed |-> {}]
  ELSE IF b.err # NoErr
    THEN [fs |-> b.fs, nic |-> nic, err |-> b.err, changed |-> {}]
  ELSE [fs |-> b.fs, nic |-> s5.nic, err |-> s5.err, changed |-> s5.changed]

\* One restore of restoreBackup, were the restores given up after the first
\* one that fails.
RestoreStep_StopsAtFirstFailure(s, present, r, msg) ==
  IF ~present \/ Len(s.errStr) > 0 THEN s
  ELSE IF r.err # NoErr THEN [s EXCEPT !.errStr = Append(@, msg)]
  ELSE [s EXCEPT !.nic = r.nic]

\* One restore of restoreBackup: its error, if any, is appended to errStr.
RestoreStep(s, present, r, msg) ==
  IF ~present THEN s
  ELSE IF r.err # NoErr THEN [s EXCEPT !.errStr = Append(@, msg)]
  ELSE [s EXCEPT !.nic = r.nic]

\* restoreBackup: readOK, linkOK and removeOK say whether os.ReadFile,
\* LinkByName and os.Remove succeed, refused holds the attributes whose value
\* the kernel does not accept.
restoreBackup(fs, nic, ifName, containerID, backupPath, readOK, linkOK, removeOK, refused) ==
  LET filePath == BackupFile(backupPath, containerID, ifName)
      config == Unmarshal(fs.files[filePath])
      s0 == [nic |-> nic, errStr |-> <<>>]
      s1 == RestoreStep(s0, config.Mtu # 0,
                        changeMtu(s0.nic, config.Mtu, linkOK, "mtu" \notin refused),
                        "failed to restore MTU")
      s2 == RestoreStep(s1, config.Mac # "",
                        changeMacAddr(s1.nic, config.Mac, linkOK, "mac" \notin refused),
                        "failed to restore MAC address")
      s3 == RestoreStep(s2, config.Promisc.set,
                        changePromisc(s2.nic, config.Promisc.val, linkOK,
                                      "promisc" \notin refused),
                        "failed to restore promiscuous mode")
      s4 == RestoreStep(s3, config.Allmulti.set,
                        changeAllmulti(s3.nic, config.Allmulti.val, linkOK,
                                       "allmulti" \notin refused),
                        "failed to restore all-multicast mode")
      s5 == RestoreStep(s4, config.TxQLen.set,
                        changeTxQLen(s4.nic, config.TxQLen.val, linkOK,
                                     "txQLen" \notin refused),
                        "failed to restore transmit queue length")
  IN
  IF filePath \notin DOMAIN fs.files THEN [fs |-> fs, nic |-> nic, err |-> NoErr]
  ELSE IF ~readOK THEN [fs |-> fs, nic |-> nic, err |-> "failed to open file"]
  ELSE IF ~linkOK THEN [fs |-> fs, nic |-> nic, err |-> NoErr]
  ELSE IF Len(s5.errStr) > 0 THEN [fs |-> fs, nic |-> s5.nic, err |-> Join(s5.errStr)]
  ELSE IF ~removeOK THEN [fs |-> fs, nic |-> s5.nic, err |-> "failed to remove file"]
  ELSE [fs |-> Remove(fs, filePath), nic |-> s5.nic, err |-> NoErr]

\* cmdDel: the error of restoreBackup is dropped.  restored is that error.
cmdDel(fs, nic, containerID, ifName, data, readOK, linkOK, removeOK, refused) ==
  LET tuningConf == parseConf(data)
      r == restoreBackup(fs, nic, ifName, containerID, tuningConf.DataDir,
                         readOK, linkOK, removeOK, refused)
  IN [fs |-> r.fs, nic |-> r.nic, err |-> NoErr, restored |-> r.err]

\* ------------------------------------- the tuning plugin: duplicated sysctls

DupErr == "duplicated sysctl keys are not allowed"

\* (*sysctlKey).UnmarshalText on the package's map m: the key is refused when
\* the map has it, and is put into the map otherwise.
UnmarshalText(m, key) ==
  IF key \in m
    THEN [m |-> m, err |-> DupErr]
    ELSE [m |-> m \cup {key}, err |-> NoErr]

\* json.Unmarshal into sysctlCheck: the keys of the document's sysctl object
\* are decoded in the order they are written, up to the first error.
RECURSIVE decodeKeys(_, _)
decodeKeys(m, keys) ==
  IF keys = <<>>
    THEN [m |-> m, err |-> NoErr]
    ELSE LET r == UnmarshalText(m, Head(keys)) IN
         IF r.err # NoErr THEN r ELSE decodeKeys(r.m, Tail(keys))

\* validateSysctlConflictingKeys(data) with the package's map as it is; data
\* is given by the keys of its sysctl object.
validateSysctlConflictingKeys(m, data) == decodeKeys(m, data)

\* ---------------------------------------------------------------- variables

VARIABLES
  fnLinks,   \* the link list given to findFreeRoutingTableID
  fnRes,     \* its result, or NoCall before the call
  links,     \* the links of the namespace, in kernel listing (index) order
  vrfOp,     \* the last findVRF / createVRF call and what it returned
  created,   \* per name: the table a successful createVRF had to assign, else 0
  allAuto,   \* every createVRF call so far passed tableID = 0
  addrs,     \* the addresses on the interface
  routes,    \* the routes of the namespace
  ai,        \* per invocation of addInterface: its position and locals
  calls,     \* per invocation: the kernel calls it issued so far, in order
  pre,       \* per invocation: master, addresses and routes when it started
  rm,        \* the last resetMaster call and what it returned
  nic,       \* tuning: the attributes of the container's interface
  fs,        \* tuning: the directories and backup files
  tn,        \* tuning: the last command, what it returned, and the last cmdAdd
  nOps,      \* tuning: the number of commands run
  sysctlDuplicatesMap,  \* tuning: the keys in the package's map of one process
  sc         \* tuning: the last validateSysctlConflictingKeys call of the process

allocVars == <<fnLinks, fnRes>>
vrfVars == <<vrfOp, created, allAuto>>
kernVars == <<addrs, routes>>
aiVars == <<ai, calls, pre, rm>>
tuningVars == <<nic, fs, tn, nOps>>
sysctlVars == <<sysctlDuplicatesMap, sc>>
vars ==
  <<fnLinks, fnRes, links, vrfOp, created, allAuto, addrs, routes, ai, calls, pre, rm,
    nic, fs, tn, nOps, sysctlDuplicatesMap, sc>>

NoCall == [id |-> 0, err |-> "not called"]
NoOp == [op |-> "none", name |-> "", tableID |-> 0, err |-> NoErr, vrf |-> NilLink,
         allocs |-> 0]

\* The invocations of addInterface that can be in progress.
Procs == {1, 2}

\* An invocation that has not started.
AIIdle ==
  [pc |-> "idle", vrf |-> NilLink, intf |-> "", i |-> NilLink, before |-> <<>>,
   groutes |-> <<>>, after |-> <<>>, k |-> 0, retryCount |-> 0, j |-> 0, err |-> NoErr]

NoPre == [master |-> 0, addrs |-> {}, routes |-> {}]
NoReset ==
  [name |-> "", err |-> NoErr, arg |-> "", lookups |-> 0, sets |-> 0, setOK |-> TRUE,
   before |-> NilLink]

NoTn ==
  [op |-> "none", ContainerID |-> "", DataDir |-> "", err |-> NoErr, restored |-> NoErr,
   link |-> TRUE, addID |-> "", addDir |-> "", addBefore |-> NoNic, addChanged |-> {},
   addConf |-> TuningConf("", "", FALSE, 0, NilInt, NilBool, FALSE),
   delFs |-> NoFS, delBefore |-> NoNic, delRefused |-> {}, delFail |-> "none"]

\* The variables of one family of operations while another one runs.
NoCheck == [n |-> 0, data |-> <<>>, err |-> NoErr]
SysctlIdle == sysctlDuplicatesMap = {} /\ sc = NoCheck

TuningIdle == nic = NoNic /\ fs = NoFS /\ tn = NoTn /\ nOps = 0

AllocIdle == fnLinks = <<>> /\ fnRes = NoCall

VrfIdle ==
  /\ vrfOp = NoOp
  /\ created = [n \in LinkNames |-> 0]
  /\ allAuto = TRUE

EnslaveIdle ==
  /\ addrs = {}
  /\ routes = {}
  /\ ai = [p \in Procs |-> AIIdle]
  /\ calls = [p \in Procs |-> <<>>]
  /\ pre = [p \in Procs |-> NoPre]
  /\ rm = NoReset

\* ------------------------------------------- the allocator as a pure function

FnLinkNames == [k \in 1..(MaxLinks + 1) |-> "link"]

\* One input link: a plain device, or a VRF with any valid table.
InputLinks(k) ==
  {DeviceLink(FnLinkNames[k], k, 0)} \cup {VrfLink(FnLinkNames[k], k, t) : t \in TableIDs}

InputLists ==
  UNION {{s \in [1..n -> UNION {InputLinks(k) : k \in 1..MaxLinks}] :
            \A k \in 1..n : s[k] \in InputLinks(k)} : n \in 0..MaxLinks}


InitAlloc ==
  /\ fnLinks \in InputLists
  /\ fnRes = NoCall
  /\ links = <<>>
  /\ VrfIdle
  /\ EnslaveIdle
  /\ TuningIdle
  /\ SysctlIdle

CallFindFree ==
  /\ fnRes = NoCall
  /\ fnRes' = findFreeRoutingTableID(fnLinks)
  /\ UNCHANGED <<fnLinks, links, vrfVars, kernVars, aiVars, tuningVars, sysctlVars>>

NextAlloc == CallFindFree

SpecAlloc == InitAlloc /\ [][NextAlloc]_vars

\* ------------------------------------------- findVRF and createVRF as calls

\* A namespace that holds one plain interface and no VRF yet.
InitVRF ==
  /\ links = <<DeviceLink(IntfName, 1, 0)>>
  /\ VrfIdle
  /\ AllocIdle
  /\ EnslaveIdle
  /\ TuningIdle
  /\ SysctlIdle

FindVRF(name) ==
  /\ vrfOp' = [op |-> "findVRF", name |-> name, tableID |-> 0,
               err |-> findVRF(links, name).err, vrf |-> findVRF(links, name).vrf,
               allocs |-> 0]
  /\ UNCHANGED <<links, created, allAuto, allocVars, kernVars, aiVars, tuningVars, sysctlVars>>

CreateVRF(name, tableID) ==
  \E listOK, addOK, upOK \in BOOLEAN :
    LET r == createVRF(links, name, tableID, listOK, addOK, upOK) IN
    /\ links' = r.links
    /\ vrfOp' = [op |-> "createVRF", name |-> name, tableID |-> tableID,
                 err |-> r.err, vrf |-> r.vrf, allocs |-> r.allocs]
    /\ created' = IF r.err = NoErr
                    THEN [created EXCEPT ![name] = TableToAssign(links, tableID)]
                    ELSE created
    /\ allAuto' = (allAuto /\ tableID = 0)
    /\ UNCHANGED <<allocVars, kernVars, aiVars, tuningVars, sysctlVars>>

NextVRF ==
  \/ \E name \in LinkNames : FindVRF(name)
  \/ \E name \in LinkNames, tableID \in 0..MaxUint32 : CreateVRF(name, tableID)

SpecVRF == InitVRF /\ [][NextVRF]_vars

\* ------------------------------------------------------------ addInterface

\* One kernel call as recorded in calls: the operation, whether the kernel
\* accepted it, and its argument or result where it has one (the address,
\* the route passed or one of the routes listed, the number of routes
\* listed, the milliseconds slept).
Call(op, ok, addr, route, n, ms) ==
  [op |-> op, ok |-> ok, addr |-> addr, route |-> route, n |-> n, ms |-> ms]

Logged(p, e) == calls' = [calls EXCEPT ![p] = Append(@, e)]

\* return err (nil on success) with the locals as they are in rec.
Returned(p, rec, err) == ai' = [ai EXCEPT ![p] = [rec EXCEPT !.pc = "done", !.err = err]]

Moved(p, rec) == ai' = [ai EXCEPT ![p] = rec]

\* A name no link has.
MissingName == "eth9"

\* The caller hands addInterface a VRF of the namespace and an interface name.
\* The record of an earlier resetMaster is dropped.
AI_Call(p, v, n) ==
  /\ ai[p].pc \in {"idle", "done"}
  /\ Moved(p, [AIIdle EXCEPT !.pc = "lookup", !.vrf = v, !.intf = n])
  /\ calls' = [calls EXCEPT ![p] = <<>>]
  /\ pre' = [pre EXCEPT ![p] = [master |-> LinkByName(links, n).master,
                                addrs |-> addrs, routes |-> routes]]
  /\ rm' = NoReset
  /\ UNCHANGED <<links, kernVars, allocVars, vrfVars, tuningVars, sysctlVars>>

\* i, err := netlinksafe.LinkByName(intf), and the test of i's master.
AI_LinkByName(p) ==
  LET a == ai[p]
      l == LinkByName(links, a.intf)
  IN
  /\ a.pc = "lookup"
  /\ Logged(p, Call("LinkByName", l # NilLink, NilAddr, NilRoute, 0, 0))
  /\ IF l = NilLink
       THEN Returned(p, a, "could not get link by name")
       ELSE IF hasMaster(l)
              THEN Moved(p, [a EXCEPT !.pc = "masterName", !.i = l])
              ELSE Moved(p, [a EXCEPT !.pc = "before", !.i = l])
  /\ UNCHANGED <<links, kernVars, pre, rm, allocVars, vrfVars, tuningVars, sysctlVars>>

\* master, err := netlink.LinkByIndex(i.Attrs().MasterIndex): both outcomes
\* return an error.
AI_MasterName(p) ==
  LET a == ai[p] IN
  /\ a.pc = "masterName"
  /\ \E ok \in BOOLEAN :
       LET found == ok /\ LinkByIndex(links, a.i.master) # NilLink IN
       /\ Logged(p, Call("LinkByIndex", found, NilAddr, NilRoute, 0, 0))
       /\ Returned(p, a, IF found
                           THEN "interface has already a master set"
                           ELSE "interface has already a master set, could not retrieve the name")
  /\ UNCHANGED <<links, kernVars, pre, rm, allocVars, vrfVars, tuningVars, sysctlVars>>

\* beforeAddresses, err := getGlobalAddresses(i, netlink.FAMILY_V6)
AI_BeforeAddrs(p) ==
  LET a == ai[p] IN
  /\ a.pc = "before"
  /\ \E ok \in BOOLEAN :
       /\ Logged(p, Call("AddrList", ok, NilAddr, NilRoute, 0, 0))
       /\ IF ok
            THEN \E listed \in Perms(AddrList(addrs, "v6")) :
                   Moved(p, [a EXCEPT !.pc = "routes",
                                      !.before = getGlobalAddresses(listed)])
            ELSE Returned(p, a,
                   "failed getting global ipv6 addresses before slaving interface")
  /\ UNCHANGED <<links, kernVars, pre, rm, allocVars, vrfVars, tuningVars, sysctlVars>>

\* r, err := netlinksafe.RouteListFiltered(FAMILY_ALL, filter, filterMask),
\* and the loop that keeps the routes with a source.
AI_RouteList(p) ==
  LET a == ai[p] IN
  /\ a.pc = "routes"
  /\ \E ok \in BOOLEAN :
       /\ Logged(p, Call("RouteList", ok, NilAddr, NilRoute, 0, 0))
       /\ IF ok
            THEN \E r \in Perms(RouteListFiltered(routes, snapshotFilter(a.i), snapshotMask)) :
                   Moved(p, [a EXCEPT !.pc = "setMaster", !.groutes = globalRoutesOf(r)])
            ELSE Returned(p, a, "failed getting all routes")
  /\ UNCHANGED <<links, kernVars, pre, rm, allocVars, vrfVars, tuningVars, sysctlVars>>

\* addInterface looking at the master again, in the kernel, right before
\* LinkSetMaster.
AI_SetMaster_Rechecks(p) ==
  LET a == ai[p] IN
  /\ a.pc = "setMaster"
  /\ IF LinkByName(links, a.intf).master # 0
       THEN /\ Returned(p, a, "interface has already a master set")
            /\ UNCHANGED <<links, kernVars, calls>>
       ELSE \E ok \in BOOLEAN :
              /\ Logged(p, Call("LinkSetMaster", ok, NilAddr, NilRoute, 0, 0))
              /\ IF ok
                   THEN /\ \E dropped \in SUBSET Droppable(addrs) : addrs' = addrs \ dropped
                        /\ links' = WithMaster(links, a.i.index, a.vrf.index)
                        /\ routes' = Flushed(routes, a.i.index)
                        /\ Moved(p, [a EXCEPT !.pc = "after"])
                   ELSE /\ Returned(p, a, "could not set vrf as master")
                        /\ UNCHANGED <<links, kernVars>>
  /\ UNCHANGED <<pre, rm, allocVars, vrfVars, tuningVars, sysctlVars>>

\* addInterface going on to the after-snapshot when LinkSetMaster failed.
AI_SetMaster_IgnoresError(p) ==
  LET a == ai[p] IN
  /\ a.pc = "setMaster"
  /\ \E ok \in BOOLEAN :
       /\ Logged(p, Call("LinkSetMaster", ok, NilAddr, NilRoute, 0, 0))
       /\ IF ok
            THEN /\ \E dropped \in SUBSET Droppable(addrs) : addrs' = addrs \ dropped
                 /\ links' = WithMaster(links, a.i.index, a.vrf.index)
                 /\ routes' = Flushed(routes, a.i.index)
                 /\ Moved(p, [a EXCEPT !.pc = "after"])
            ELSE /\ Moved(p, [a EXCEPT !.pc = "after"])
                 /\ UNCHANGED <<links, kernVars>>
  /\ UNCHANGED <<pre, rm, allocVars, vrfVars, tuningVars, sysctlVars>>

\* err = netlink.LinkSetMaster(i, vrf).  When the kernel accepts it, it cycles
\* the interface: any of the global IPv6 addresses may be gone and the routes
\* of the interface are flushed.
AI_SetMaster(p) ==
  LET a == ai[p] IN
  /\ a.pc = "setMaster"
  /\ \E ok \in BOOLEAN :
       /\ Logged(p, Call("LinkSetMaster", ok, NilAddr, NilRoute, 0, 0))
       /\ IF ok
            THEN /\ \E dropped \in SUBSET Droppable(addrs) : addrs' = addrs \ dropped
                 /\ links' = WithMaster(links, a.i.index, a.vrf.index)
                 /\ routes' = Flushed(routes, a.i.index)
                 /\ Moved(p, [a EXCEPT !.pc = "after"])
            ELSE /\ Returned(p, a, "could not set vrf as master")
                 /\ UNCHANGED <<links, kernVars>>
  /\ UNCHANGED <<pre, rm, allocVars, vrfVars, tuningVars, sysctlVars>>

\* afterAddresses, err := getGlobalAddresses(i, netlink.FAMILY_V6)
AI_AfterAddrs(p) ==
  LET a == ai[p] IN
  /\ a.pc = "after"
  /\ \E ok \in BOOLEAN :
       /\ Logged(p, Call("AddrList", ok, NilAddr, NilRoute, 0, 0))
       /\ IF ok
            THEN \E listed \in Perms(AddrList(addrs, "v6")) :
                   Moved(p, [a EXCEPT !.pc = "repair", !.k = 1,
                                      !.after = getGlobalAddresses(listed)])
            ELSE Returned(p, a,
                   "failed getting global ipv6 addresses after slaving interface")
  /\ UNCHANGED <<links, kernVars, pre, rm, allocVars, vrfVars, tuningVars, sysctlVars>>

\* One round of the loop over beforeAddresses: the address is skipped when
\* afterAddresses holds it, else it is re-added with netlink.AddrAdd, which
\* the kernel refuses in any case when the interface has that IP.
AI_Repair(p) ==
  LET a == ai[p] IN
  /\ a.pc = "repair"
  /\ IF a.k > Len(a.before)
       THEN /\ Moved(p, [a EXCEPT !.pc = "replay", !.j = 1])
            /\ UNCHANGED <<addrs, calls>>
       ELSE IF foundAfter(a.before[a.k], a.after)
              THEN /\ Moved(p, [a EXCEPT !.k = a.k + 1])
                   /\ UNCHANGED <<addrs, calls>>
              ELSE \E ok \in BOOLEAN :
                     LET toFind == a.before[a.k]
                         added == ok /\ ~\E x \in addrs : x.ip = toFind.ip
                     IN
                     /\ Logged(p, Call("AddrAdd", added, toFind, NilRoute, 0, 0))
                     /\ IF added
                          THEN /\ addrs' = addrs \cup {toFind}
                               /\ Moved(p, [a EXCEPT !.pc = "query", !.retryCount = 0])
                          ELSE /\ Returned(p, a, "could not restore address")
                               /\ UNCHANGED addrs
  /\ UNCHANGED <<links, routes, pre, rm, allocVars, vrfVars, tuningVars, sysctlVars>>

\* A convergence wait that takes the interface out of the VRF again when it
\* fails.
AI_Query_RollsBack(p) ==
  LET a == ai[p]
      toFind == a.before[a.k]
      routesVRFTable ==
        RouteListFiltered(routes, convergenceFilter(toFind, a.vrf, a.i), convergenceMask)
  IN
  /\ a.pc = "query"
  /\ \E ok \in BOOLEAN :
       /\ Logged(p, Call("RouteQuery", ok, toFind,
                         IF ok /\ routesVRFTable # {}
                           THEN CHOOSE r \in routesVRFTable : TRUE ELSE NilRoute,
                         IF ok THEN Cardinality(routesVRFTable) ELSE 0, 0))
       /\ IF ~ok
            THEN /\ Returned(p, a, "failed getting routes")
                 /\ links' = WithMaster(links, a.i.index, 0)
            ELSE IF Cardinality(routesVRFTable) >= 1
                   THEN /\ Moved(p, [a EXCEPT !.pc = "repair", !.k = a.k + 1])
                        /\ UNCHANGED links
                   ELSE IF a.retryCount = maxRetries
                          THEN /\ Returned(p, a, "failed getting local/host addresses")
                               /\ links' = WithMaster(links, a.i.index, 0)
                          ELSE /\ Moved(p, [a EXCEPT !.pc = "sleep"])
                               /\ UNCHANGED links
  /\ UNCHANGED <<kernVars, pre, rm, allocVars, vrfVars, tuningVars, sysctlVars>>

\* One query of the convergence wait and the tests that follow it.
AI_Query(p) ==
  LET a == ai[p]
      toFind == a.before[a.k]
      routesVRFTable ==
        RouteListFiltered(routes, convergenceFilter(toFind, a.vrf, a.i), convergenceMask)
  IN
  /\ a.pc = "query"
  /\ \E ok \in BOOLEAN :
       /\ Logged(p, Call("RouteQuery", ok, toFind,
                         IF ok /\ routesVRFTable # {}
                           THEN CHOOSE r \in routesVRFTable : TRUE ELSE NilRoute,
                         IF ok THEN Cardinality(routesVRFTable) ELSE 0, 0))
       /\ IF ~ok
            THEN Returned(p, a, "failed getting routes")
            ELSE IF Cardinality(routesVRFTable) >= 1
                   THEN Moved(p, [a EXCEPT !.pc = "repair", !.k = a.k + 1])
                   ELSE IF a.retryCount = maxRetries
                          THEN Returned(p, a, "failed getting local/host addresses")
                          ELSE Moved(p, [a EXCEPT !.pc = "sleep"])
  /\ UNCHANGED <<links, kernVars, pre, rm, allocVars, vrfVars, tuningVars, sysctlVars>>

\* The pause of the convergence wait without retryCount++.
AI_Sleep_NoCount(p) ==
  LET a == ai[p] IN
  /\ a.pc = "sleep"
  /\ Logged(p, Call("Sleep", TRUE, a.before[a.k], NilRoute, 0, backoff(a.retryCount)))
  /\ Moved(p, [a EXCEPT !.pc = "query"])
  /\ UNCHANGED <<links, kernVars, pre, rm, allocVars, vrfVars, tuningVars, sysctlVars>>

\* time.Sleep(backoffBase * time.Duration(1<<retryCount)); retryCount++
AI_Sleep(p) ==
  LET a == ai[p] IN
  /\ a.pc = "sleep"
  /\ Logged(p, Call("Sleep", TRUE, a.before[a.k], NilRoute, 0, backoff(a.retryCount)))
  /\ Moved(p, [a EXCEPT !.pc = "query", !.retryCount = a.retryCount + 1])
  /\ UNCHANGED <<links, kernVars, pre, rm, allocVars, vrfVars, tuningVars, sysctlVars>>

\* The loop over globalRoutes going on to the next route when RouteReplace
\* failed.
AI_Replay_SkipsFailed(p) ==
  LET a == ai[p] IN
  /\ a.pc = "replay"
  /\ IF a.j > Len(a.groutes)
       THEN /\ Returned(p, a, NoErr)
            /\ UNCHANGED <<routes, calls>>
       ELSE \E ok \in BOOLEAN :
              LET r == replayRoute(a.groutes[a.j], a.vrf) IN
              /\ Logged(p, Call("RouteReplace", ok, NilAddr, r, 0, 0))
              /\ Moved(p, [a EXCEPT !.j = a.j + 1])
              /\ IF ok
                   THEN routes' = Replaced(routes, r)
                   ELSE UNCHANGED routes
  /\ UNCHANGED <<links, addrs, pre, rm, allocVars, vrfVars, tuningVars, sysctlVars>>

\* The loop over globalRoutes walked from its last route to its first.
AI_Replay_Reversed(p) ==
  LET a == ai[p] IN
  /\ a.pc = "replay"
  /\ IF a.j > Len(a.groutes)
       THEN /\ Returned(p, a, NoErr)
            /\ UNCHANGED <<routes, calls>>
       ELSE \E ok \in BOOLEAN :
              LET r == replayRoute(a.groutes[Len(a.groutes) + 1 - a.j], a.vrf) IN
              /\ Logged(p, Call("RouteReplace", ok, NilAddr, r, 0, 0))
              /\ IF ok
                   THEN /\ routes' = Replaced(routes, r)
                        /\ Moved(p, [a EXCEPT !.j = a.j + 1])
                   ELSE /\ Returned(p, a, "could not add route")
                        /\ UNCHANGED routes
  /\ UNCHANGED <<links, addrs, pre, rm, allocVars, vrfVars, tuningVars, sysctlVars>>

\* One round of the loop over globalRoutes: netlink.RouteReplace of the route
\* moved to the VRF's table; return nil after the last one.
AI_Replay(p) ==
  LET a == ai[p] IN
  /\ a.pc = "replay"
  /\ IF a.j > Len(a.groutes)
       THEN /\ Returned(p, a, NoErr)
            /\ UNCHANGED <<routes, calls>>
       ELSE \E ok \in BOOLEAN :
              LET r == replayRoute(a.groutes[a.j], a.vrf) IN
              /\ Logged(p, Call("RouteReplace", ok, NilAddr, r, 0, 0))
              /\ IF ok
                   THEN /\ routes' = Replaced(routes, r)
                        /\ Moved(p, [a EXCEPT !.j = a.j + 1])
                   ELSE /\ Returned(p, a, "could not add route")
                        /\ UNCHANGED routes
  /\ UNCHANGED <<links, addrs, pre, rm, allocVars, vrfVars, tuningVars, sysctlVars>>

\* The kernel, on its own time: the local route of a global IPv6 address of
\* the interface appears in the table of the interface's VRF.
KernelInstallHostRoute ==
  LET l == LinkByName(links, IntfName)
      m == LinkByIndex(links, l.master)
  IN
  /\ l.master # 0 /\ IsVrf(m)
  /\ \E a \in Droppable(addrs) :
       /\ HostRoute(a, m.table, l.index) \notin routes
       /\ routes' = routes \cup {HostRoute(a, m.table, l.index)}
  /\ UNCHANGED <<links, addrs, aiVars, allocVars, vrfVars, tuningVars, sysctlVars>>

\* -------------------------------------------------------------- resetMaster

\* resetMaster with a second attempt after a refused LinkSetNoMaster.
resetMaster_Retries(ls, interfaceName, setOK) ==
  LET intf == LinkByName(ls, interfaceName) IN
  IF intf = NilLink
    THEN [links |-> ls, cleared |-> FALSE, lookups |-> 1, sets |-> 0,
          err |-> "resetMaster: could not get link by name", arg |-> interfaceName]
    ELSE IF ~setOK
           THEN [links |-> ls, cleared |-> FALSE, lookups |-> 1, sets |-> 2,
                 err |-> "resetMaster: could reset master to", arg |-> interfaceName]
           ELSE [links |-> WithMaster(ls, intf.index, 0), cleared |-> intf.master # 0,
                 lookups |-> 1, sets |-> 1, err |-> NoErr, arg |-> ""]

\* resetMaster on the link list ls; setOK says whether the kernel accepts
\* LinkSetNoMaster.  Yields the new link list, whether a master was removed,
\* the number of LinkByName and LinkSetNoMaster calls, and the error with
\* the name formatted into it.
resetMaster(ls, interfaceName, setOK) ==
  LET intf == LinkByName(ls, interfaceName) IN
  IF intf = NilLink
    THEN [links |-> ls, cleared |-> FALSE, lookups |-> 1, sets |-> 0,
          err |-> "resetMaster: could not get link by name", arg |-> interfaceName]
    ELSE IF ~setOK
           THEN [links |-> ls, cleared |-> FALSE, lookups |-> 1, sets |-> 1,
                 err |-> "resetMaster: could reset master to", arg |-> interfaceName]
           ELSE [links |-> WithMaster(ls, intf.index, 0), cleared |-> intf.master # 0,
                 lookups |-> 1, sets |-> 1, err |-> NoErr, arg |-> ""]

\* A call of resetMaster between two invocations of addInterface; the records
\* of the finished invocations are dropped.  Leaving a master cycles the
\* interface as joining one does.
ResetMaster(name) ==
  /\ \A p \in Procs : ai[p].pc \in {"idle", "done"}
  /\ \E setOK \in BOOLEAN :
       LET r == resetMaster(links, name, setOK) IN
       /\ links' = r.links
       /\ rm' = [name |-> name, err |-> r.err, arg |-> r.arg, lookups |-> r.lookups,
                 sets |-> r.sets, setOK |-> setOK, before |-> LinkByName(links, name)]
       /\ IF r.cleared
            THEN /\ \E dropped \in SUBSET Droppable(addrs) : addrs' = addrs \ dropped
                 /\ routes' = Flushed(routes, LinkByName(links, name).index)
            ELSE UNCHANGED kernVars
  /\ ai' = [p \in Procs |-> AIIdle]
  /\ calls' = [p \in Procs |-> <<>>]
  /\ pre' = [p \in Procs |-> NoPre]
  /\ UNCHANGED <<allocVars, vrfVars, tuningVars, sysctlVars>>

\* ------------------------------------------------- the enslave specification

\* A namespace with the interface, not enslaved, and two VRFs whose tables
\* the allocator chose; the interface has its link-local and IPv4 address,
\* any of the global IPv6 addresses and any of its routes.
Init ==
  /\ links = <<DeviceLink(IntfName, 1, 0), VrfLink("vrf-blue", 2, 1), VrfLink("vrf-red", 3, 2)>>
  /\ \E g \in SUBSET {G1, G2} : addrs = {LL, V4} \cup g
  /\ routes \in SUBSET {R1, R2, R3, R4}
  /\ ai = [p \in Procs |-> AIIdle]
  /\ calls = [p \in Procs |-> <<>>]
  /\ pre = [p \in Procs |-> NoPre]
  /\ rm = NoReset
  /\ AllocIdle
  /\ VrfIdle
  /\ TuningIdle
  /\ SysctlIdle

\* The steps of invocation p.
AI_Step(p) ==
  \/ \E v \in {l \in SeqRange(links) : IsVrf(l)}, n \in {IntfName, MissingName} : AI_Call(p, v, n)
  \/ AI_LinkByName(p)
  \/ AI_MasterName(p)
  \/ AI_BeforeAddrs(p)
  \/ AI_RouteList(p)
  \/ AI_SetMaster(p)
  \/ AI_AfterAddrs(p)
  \/ AI_Repair(p)
  \/ AI_Query(p)
  \/ AI_Sleep(p)
  \/ AI_Replay(p)

\* One invocation at a time, resetMaster between invocations.
Next ==
  \/ AI_Step(1)
  \/ KernelInstallHostRoute
  \/ \E name \in {IntfName, MissingName} : ResetMaster(name)

Spec == Init /\ [][Next]_vars

\* The steps of invocation p after the call: the body of addInterface.
AI_Run(p) ==
  \/ AI_LinkByName(p)
  \/ AI_MasterName(p)
  \/ AI_BeforeAddrs(p)
  \/ AI_RouteList(p)
  \/ AI_SetMaster(p)
  \/ AI_AfterAddrs(p)
  \/ AI_Repair(p)
  \/ AI_Query(p)
  \/ AI_Sleep(p)
  \/ AI_Replay(p)

\* Spec with an invocation that keeps running: every kernel call and every
\* time.Sleep returns, so the body of addInterface takes its next step.
SpecLive == Spec /\ WF_vars(AI_Run(1))

\* ------------------------------------------------------ the race specification

\* The VRF each of the two concurrent invocations is given.
VrfOf(p) == IF p = 1 THEN LinkByName(links, "vrf-blue") ELSE LinkByName(links, "vrf-red")

\* Two CNI ADD commands run as two processes of one network namespace: each
\* calls addInterface once, on the same interface, with its own VRF.
InitRace ==
  /\ links = <<DeviceLink(IntfName, 1, 0), VrfLink("vrf-blue", 2, 1), VrfLink("vrf-red", 3, 2)>>
  /\ addrs = {LL, V4, G1}
  /\ routes = {R1}
  /\ ai = [p \in Procs |-> AIIdle]
  /\ calls = [p \in Procs |-> <<>>]
  /\ pre = [p \in Procs |-> NoPre]
  /\ rm = NoReset
  /\ AllocIdle
  /\ VrfIdle
  /\ TuningIdle
  /\ SysctlIdle

RaceCall(p) == ai[p].pc = "idle" /\ AI_Call(p, VrfOf(p), IntfName)

NextRace ==
  \/ \E p \in Procs : RaceCall(p)
  \/ \E p \in Procs : AI_Run(p)
  \/ KernelInstallHostRoute

SpecRace == InitRace /\ [][NextRace]_vars

\* ------------------------------------------- the address-repair specification

\* While the enslavement cycles the interface, before addInterface lists the
\* addresses again, the address configuration of the namespace may put a
\* global address of the interface back with the host prefix length, and the
\* link-local or host-scope address may go.
EnvReassign ==
  /\ ai[1].pc = "after"
  /\ \/ \E x \in {a \in pre[1].addrs : a.family = "v6" /\ a.scope = "universe"} :
          /\ AsHost(x) \notin addrs
          /\ addrs' = {y \in addrs : y.ip # x.ip} \cup {AsHost(x)}
     \/ \E x \in {LL, HS} \cap addrs : addrs' = addrs \ {x}
  /\ UNCHANGED <<links, routes, aiVars, allocVars, vrfVars, tuningVars, sysctlVars>>

\* The namespace of Init with a host-scope address and one route.
InitAddrs ==
  /\ links = <<DeviceLink(IntfName, 1, 0), VrfLink("vrf-blue", 2, 1), VrfLink("vrf-red", 3, 2)>>
  /\ \E g \in SUBSET {G1, G2} : addrs = {LL, HS, V4} \cup g
  /\ routes = {R1}
  /\ ai = [p \in Procs |-> AIIdle]
  /\ calls = [p \in Procs |-> <<>>]
  /\ pre = [p \in Procs |-> NoPre]
  /\ rm = NoReset
  /\ AllocIdle
  /\ VrfIdle
  /\ TuningIdle
  /\ SysctlIdle

NextAddrs ==
  \/ AI_Step(1)
  \/ KernelInstallHostRoute
  \/ EnvReassign

SpecAddrs == InitAddrs /\ [][NextAddrs]_vars

\* ------------------------------------------------- the tuning specification

TuningIfName == "eth0"
ContainerIDs == {"c1", "c2"}
DataDirs == {"", "/tmp/tuning"}

\* The configurations given to cmdAdd: no attribute, one attribute each, and
\* all of them; one without prevResult.
AddConfs ==
  {TuningConf("", "", FALSE, 0, NilInt, NilBool, TRUE),
   TuningConf("", "02:00:00:00:00:0A", FALSE, 0, NilInt, NilBool, TRUE),
   TuningConf("", "", TRUE, 0, NilInt, NilBool, TRUE),
   TuningConf("", "", FALSE, 1400, NilInt, NilBool, TRUE),
   TuningConf("", "", FALSE, 0, PtrInt(500), NilBool, TRUE),
   TuningConf("", "", FALSE, 0, NilInt, PtrBool(TRUE), TRUE),
   TuningConf("", "", FALSE, 0, NilInt, PtrBool(FALSE), TRUE),
   TuningConf("", "02:00:00:00:00:0A", TRUE, 1400, PtrInt(500), PtrBool(TRUE), TRUE),
   TuningConf("", "02:00:00:00:00:0A", TRUE, 1400, PtrInt(500), PtrBool(TRUE), FALSE)}

\* What can go wrong in one command: nothing, one call of the operating
\* system, or the kernel refusing the new value of some attributes.
Failures == {"none", "link", "mkdir", "write", "read", "remove"}
RefusedSets == {{}, {"mtu", "mac"}, Attrs} \cup {{a} : a \in Attrs}

\* The attributes a configuration asks cmdAdd to change, and the ones a
\* backup file asks restoreBackup to restore: the kernel can refuse only what
\* it is asked for.
Requested(data) ==
  {a \in Attrs :
     \/ a = "mac" /\ data.Mac # ""
     \/ a = "promisc" /\ data.Promisc
     \/ a = "mtu" /\ data.Mtu # 0
     \/ a = "allmulti" /\ data.Allmulti.set
     \/ a = "txQLen" /\ data.TxQLen.set}
Recorded(files, filePath) ==
  IF filePath \in DOMAIN files THEN DOMAIN files[filePath] ELSE {}

\* A container interface as the plugin finds it.
InitTuning ==
  /\ \E promisc \in {0, 1}, mtu \in {0, 1500}, multi \in {<<FALSE, 1000>>, <<TRUE, 0>>} :
       nic = Nic(HW1, promisc, mtu, multi[1], multi[2])
  /\ fs = NoFS
  /\ tn = NoTn
  /\ nOps = 0
  /\ links = <<>>
  /\ AllocIdle
  /\ VrfIdle
  /\ EnslaveIdle
  /\ SysctlIdle

\* CNI ADD for the container's interface.
CmdAdd(containerID, data) ==
  /\ nOps < MaxOps
  /\ \E f \in Failures \ {"read", "remove"}, refused \in RefusedSets :
       /\ f # "none" => refused = {}
       /\ refused \subseteq Requested(data)
       /\ LET r == cmdAdd(fs, nic, containerID, TuningIfName, data,
                          f # "link", f # "mkdir", f # "write", refused)
          IN
          /\ nic' = r.nic
          /\ fs' = r.fs
          /\ tn' = [op |-> "cmdAdd", ContainerID |-> containerID,
                    DataDir |-> parseConf(data).DataDir, err |-> r.err, restored |-> NoErr,
                    link |-> f # "link", addID |-> containerID,
                    addDir |-> parseConf(data).DataDir, addBefore |-> nic,
                    addChanged |-> r.changed, addConf |-> data,
                    delFs |-> NoFS, delBefore |-> NoNic, delRefused |-> {},
                    delFail |-> "none"]
  /\ nOps' = nOps + 1
  /\ UNCHANGED <<links, allocVars, vrfVars, kernVars, aiVars, sysctlVars>>

\* CNI DEL for the container's interface.
CmdDel(containerID, data) ==
  /\ nOps < MaxOps
  /\ \E f \in Failures \ {"mkdir", "write"}, refused \in RefusedSets :
       /\ f # "none" => refused = {}
       /\ refused \subseteq
            Recorded(fs.files, BackupFile(parseConf(data).DataDir, containerID,
                                          TuningIfName))
       /\ LET r == cmdDel(fs, nic, containerID, TuningIfName, data,
                          f # "read", f # "link", f # "remove", refused)
          IN
          /\ nic' = r.nic
          /\ fs' = r.fs
          /\ tn' = [tn EXCEPT !.op = "cmdDel", !.ContainerID = containerID,
                              !.DataDir = parseConf(data).DataDir, !.err = r.err,
                              !.restored = r.restored, !.link = f # "link",
                              !.addConf = NoTn.addConf,
                              !.delFs = fs, !.delBefore = nic,
                              !.delRefused = refused, !.delFail = f]
  /\ nOps' = nOps + 1
  /\ UNCHANGED <<links, allocVars, vrfVars, kernVars, aiVars, sysctlVars>>

NextTuning ==
  \/ \E data \in AddConfs : CmdAdd("c1", data)
  \/ \E containerID \in ContainerIDs, dir \in DataDirs :
       CmdDel(containerID, TuningConf(dir, "", FALSE, 0, NilInt, NilBool, TRUE))

SpecTuning == InitTuning /\ [][NextTuning]_vars

\* ------------------------------------------------ the sysctl-check specification

SysctlKeys == {"net.ipv4.ip_forward", "net.core.somaxconn", "net.ipv4.conf.IFNAME.arp_filter"}

\* The sysctl objects of the documents: up to MaxKeys keys as written.
RECURSIVE KeyLists(_)
KeyLists(n) ==
  IF n = 0 THEN {<<>>}
  ELSE KeyLists(n - 1) \cup
       {Append(d, k) : d \in {x \in KeyLists(n - 1) : Len(x) = n - 1}, k \in SysctlKeys}

\* A process of the plugin at its start: the package's map is empty.
InitSysctl ==
  /\ SysctlIdle
  /\ TuningIdle
  /\ links = <<>>
  /\ AllocIdle
  /\ VrfIdle
  /\ EnslaveIdle

\* One call of validateSysctlConflictingKeys in the process, as cmdAdd and
\* cmdCheck make it on their configuration.
ValidateCall(data) ==
  /\ sc.n < MaxCalls
  /\ LET r == validateSysctlConflictingKeys(sysctlDuplicatesMap, data) IN
     /\ sysctlDuplicatesMap' = r.m
     /\ sc' = [n |-> sc.n + 1, data |-> data, err |-> r.err]
  /\ UNCHANGED <<links, allocVars, vrfVars, kernVars, aiVars, tuningVars>>

NextSysctl == \E data \in KeyLists(MaxKeys) : ValidateCall(data)

SpecSysctl == InitSysctl /\ [][NextSysctl]_vars

\* ================================================================== claims

ExhaustedErr == "findFreeRoutingTableID: Failed to find an available routing id"

\* ------------------------------------------------------ claims: allocator

\* C1: for every list of links, findFreeRoutingTableID returns the smallest
\* integer >= 1 that is not the table of a VRF link of the list.
C1_SmallestFreeForEveryList ==
  fnRes # NoCall =>
    /\ fnRes.err = NoErr
    /\ fnRes.id = SmallestFree(VrfTablesOf(fnLinks))

\* C10: findFreeRoutingTableID returns the exhaustion error only if every
\* representable positive table identifier is used by a VRF of the list.
C10_ErrorOnlyWhenAllTaken ==
  (fnRes # NoCall /\ fnRes.err = ExhaustedErr) => TableIDs \subseteq VrfTablesOf(fnLinks)

\* --------------------------------------------- claims: findVRF and createVRF

VrfTablesDistinct(ls) ==
  \A j, k \in 1..Len(ls) :
    (IsVrf(ls[j]) /\ IsVrf(ls[k]) /\ j # k) => ls[j].table # ls[k].table

\* A step in which a createVRF call with tableID = 0 succeeded.
AutoCreateStep ==
  /\ links' # links
  /\ vrfOp'.op = "createVRF" /\ vrfOp'.tableID = 0 /\ vrfOp'.err = NoErr

\* C7: while every createVRF call passed tableID = 0, the tables of the VRF
\* devices of the namespace are pairwise distinct, and each successful call
\* assigns a table that no VRF used when the call listed the links.
C7_AutoTablesDistinct ==
  /\ [](allAuto => VrfTablesDistinct(links))
  /\ [][AutoCreateStep => vrfOp'.vrf.table \notin VrfTablesOf(links)]_vars

C7_Witness ==
  /\ allAuto
  /\ vrfOp.op = "createVRF" /\ vrfOp.err = NoErr
  /\ Cardinality({k \in 1..Len(links) : IsVrf(links[k])}) = 2

Done(p) == ai[p].pc = "done"
Succeeded(p) == Done(p) /\ ai[p].err = NoErr

\* The positions in the log of invocation p that hold a call of op.
CallsOf(p, op) == {n \in 1..Len(calls[p]) : calls[p][n].op = op}

\* The universe-scope IPv6 addresses of an address set.
UniverseV6(as) == {a \in as : a.scope = "universe" /\ a.family = "v6"}

\* The addresses invocation p re-added so far.
ReAdded(p) == {calls[p][n].addr : n \in {m \in CallsOf(p, "AddrAdd") : calls[p][m].ok}}

\* C2: after a successful addInterface every universe-scope IPv6 address the
\* interface had before is on the interface, whatever the kernel dropped, and
\* for every re-added address a later query listed a route to it as /128 in
\* the VRF's table through the interface.
C2_AddressesRestored ==
  \A p \in Procs :
    Succeeded(p) =>
      /\ UniverseV6(pre[p].addrs) \subseteq addrs
      /\ \A n \in CallsOf(p, "AddrAdd") :
           \E q \in CallsOf(p, "RouteQuery") :
             /\ q > n /\ calls[p][q].ok /\ calls[p][q].n >= 1
             /\ calls[p][q].addr = calls[p][n].addr
             /\ calls[p][q].route.dst = [ip |-> calls[p][n].addr.ip, plen |-> 128]
             /\ calls[p][q].route.table = ai[p].vrf.table
             /\ calls[p][q].route.link = ai[p].i.index

C2_Witness ==
  /\ Succeeded(1)
  /\ UniverseV6(pre[1].addrs) = {G1, G2}
  /\ ReAdded(1) = {G1}

\* The routes of a route set that addInterface has to replay for link number
\* index: universe scope and a source.
Replayable(rs, index) ==
  {r \in rs : r.link = index /\ r.scope = "universe" /\ r.src # Nil}

\* C3: after a successful addInterface every route of the interface that had
\* universe scope and a source before the call was passed to RouteReplace
\* with only its table changed, to the VRF's table, and is installed; and no
\* other route is ever passed to RouteReplace.
C3_RoutesReplayed ==
  \A p \in Procs :
    LET moved == {[r EXCEPT !.table = ai[p].vrf.table] :
                    r \in Replayable(pre[p].routes, ai[p].i.index)}
    IN
    /\ Succeeded(p) =>
         \A r \in moved :
           /\ r \in routes
           /\ \E n \in CallsOf(p, "RouteReplace") : calls[p][n].ok /\ calls[p][n].route = r
    /\ \A n \in CallsOf(p, "RouteReplace") : calls[p][n].route \in moved

C3_Witness ==
  /\ Succeeded(1)
  /\ pre[1].routes = {R1, R2, R3, R4}
  /\ Cardinality(CallsOf(1, "RouteReplace")) = 2

Mutating == {"LinkSetMaster", "AddrAdd", "RouteReplace"}

\* A step taken by invocation p (not by the kernel, not the caller's call).
StepOf(p) == ai'[p] # ai[p] /\ ai[p].pc \notin {"idle", "done"}

\* C4: addInterface on an interface that has a master returns an error,
\* issues no LinkSetMaster, AddrAdd or RouteReplace, and none of its steps
\* changes the master, the addresses or the routes.
C4_MasterSetRejected ==
  /\ [](\A p \in Procs :
          (Done(p) /\ pre[p].master # 0) =>
            /\ ai[p].err # NoErr
            /\ \A n \in 1..Len(calls[p]) : calls[p][n].op \notin Mutating
            /\ LinkByName(links, ai[p].intf).master = pre[p].master
            /\ addrs = pre[p].addrs)
  /\ [][\A p \in Procs :
          (StepOf(p) /\ pre[p].master # 0) => UNCHANGED <<links, addrs, routes>>]_vars

C4_Witness ==
  /\ Done(1) /\ pre[1].master # 0
  /\ ai[1].err = "interface has already a master set"
  /\ ai[1].vrf.index # pre[1].master

\* The queries of invocation p for address x, as positions in its log.
QueriesFor(p, x) == {n \in CallsOf(p, "RouteQuery") : calls[p][n].addr = x}

TimeoutErr == "failed getting local/host addresses"

\* C5: the convergence wait of an address issues at most 9 queries, none
\* after a query that listed a route, and addInterface returns the timeout
\* error exactly when 9 queries for an address all listed no route.
C5_ConvergenceWait ==
  \A p \in Procs :
    /\ \A x \in {G1, G2, LL, V4} :
         /\ Cardinality(QueriesFor(p, x)) <= 9
         /\ \A n, m \in QueriesFor(p, x) :
              (calls[p][n].ok /\ calls[p][n].n >= 1) => m <= n
    /\ (ai[p].err = TimeoutErr) <=>
         \E x \in {G1, G2, LL, V4} :
           /\ Cardinality(QueriesFor(p, x)) = 9
           /\ \A n \in QueriesFor(p, x) : calls[p][n].ok /\ calls[p][n].n = 0

C5_Witness ==
  /\ Done(1) /\ ai[1].err = TimeoutErr
  /\ \E x \in {G1, G2} :
       /\ Cardinality(QueriesFor(1, x)) = 3
       /\ \E n \in QueriesFor(1, x) : calls[1][n].n >= 1

\* The milliseconds invocation p slept while waiting for address x, summed
\* over the first n entries of its log.
RECURSIVE SleptFor(_, _, _)
SleptFor(p, x, n) ==
  IF n = 0
    THEN 0
    ELSE SleptFor(p, x, n - 1)
           + (IF calls[p][n].op = "Sleep" /\ calls[p][n].addr = x THEN calls[p][n].ms ELSE 0)

\* C6 as stated: one convergence wait sleeps at most 2500 ms in total.
C6_SleepsAtMost2500 ==
  \A p \in Procs : \A x \in {G1, G2} : SleptFor(p, x, Len(calls[p])) <= 2500

\* C6, amended: one convergence wait sleeps at most 2550 ms in total
\* (10 + 20 + 40 + 80 + 160 + 320 + 640 + 1280).
C6_SleepsAtMost2550 ==
  \A p \in Procs : \A x \in {G1, G2} : SleptFor(p, x, Len(calls[p])) <= 2550

C6_Witness ==
  /\ Done(1) /\ ai[1].err = TimeoutErr
  /\ \E x \in {G1, G2} : SleptFor(1, x, Len(calls[1])) = 2550

\* ------------------------------------------------------- claims: resetMaster

\* C9: a resetMaster that returns success leaves the interface without
\* master, also when it had none; when the lookup or the LinkSetNoMaster call
\* fails it returns an error naming the interface, after one attempt of each.
C9_ResetMaster ==
  rm.name # "" =>
    /\ rm.err = NoErr =>
         (rm.before # NilLink /\ LinkByName(links, rm.name).master = 0)
    /\ (rm.before = NilLink \/ (rm.sets >= 1 /\ ~rm.setOK)) =>
         (rm.err # NoErr /\ rm.arg = rm.name)
    /\ rm.lookups <= 1 /\ rm.sets <= 1

C9_Witness ==
  /\ rm.name = IntfName /\ rm.err = NoErr
  /\ rm.before.master = 0

\* ------------------------------------- claims: addInterface, order and errors

\* The calls of invocation p that belong to the repair of an address.
RepairCalls(p) ==
  CallsOf(p, "AddrAdd") \cup CallsOf(p, "RouteQuery") \cup CallsOf(p, "Sleep")

\* C11: in the log of one addInterface the before-snapshot of the addresses
\* and the route snapshot precede LinkSetMaster, the after-snapshot follows
\* it, every AddrAdd follows the after-snapshot, the queries and sleeps of an
\* address lie between its AddrAdd and the next AddrAdd, every RouteReplace
\* follows the last call of the address repair, and the RouteReplace calls
\* pass the routes of the route snapshot in its order.
C11_CallOrder ==
  \A p \in Procs :
    LET L == calls[p]
        AL == CallsOf(p, "AddrList")
        SM == CallsOf(p, "LinkSetMaster")
        AA == CallsOf(p, "AddrAdd")
        RR == CallsOf(p, "RouteReplace")
    IN
    /\ \A s \in SM :
         /\ \E n \in AL : n < s /\ L[n].ok
         /\ \E n \in CallsOf(p, "RouteList") : n < s /\ L[n].ok
    /\ Cardinality(AL) <= 2
    /\ \A n, m \in AL : n < m => \E s \in SM : n < s /\ s < m /\ L[s].ok
    /\ \A n \in AA : \E m \in AL, s \in SM : s < m /\ m < n /\ L[m].ok
    /\ \A n, m \in AA :
         n < m => \E q \in CallsOf(p, "RouteQuery") :
                    n < q /\ q < m /\ L[q].addr = L[n].addr
    /\ \A q \in CallsOf(p, "RouteQuery") \cup CallsOf(p, "Sleep") :
         \E n \in AA :
           /\ n < q /\ L[n].addr = L[q].addr
           /\ ~\E m \in AA : n < m /\ m < q
    /\ \A r \in RR :
         /\ \A n \in RepairCalls(p) : n < r
         /\ \E n, m \in AL : n < m /\ m < r
         /\ LET k == Cardinality({m \in RR : m <= r}) IN
            /\ k <= Len(ai[p].groutes)
            /\ L[r].route = [ai[p].groutes[k] EXCEPT !.table = ai[p].vrf.table]

C11_Witness ==
  /\ Succeeded(1)
  /\ Cardinality(CallsOf(1, "AddrAdd")) = 2
  /\ CallsOf(1, "Sleep") # {}
  /\ Len(ai[1].groutes) = 2
  /\ \A r \in CallsOf(1, "RouteReplace") : calls[1][r].ok
  /\ Cardinality(CallsOf(1, "RouteReplace")) = 2

SetMasterErr == "could not set vrf as master"

\* C12: when LinkSetMaster fails, addInterface returns its error at once and
\* has changed nothing: the interface has no master, no AddrAdd and no
\* RouteReplace was issued, and the addresses and the routes are those of
\* before the call.
C12_SetMasterFailure ==
  \A p \in Procs :
    (\E n \in CallsOf(p, "LinkSetMaster") : ~calls[p][n].ok) =>
      /\ Done(p) /\ ai[p].err = SetMasterErr
      /\ calls[p][Len(calls[p])].op = "LinkSetMaster"
      /\ LinkByName(links, ai[p].intf).master = 0
      /\ CallsOf(p, "AddrAdd") = {} /\ CallsOf(p, "RouteReplace") = {}
      /\ addrs = pre[p].addrs
      /\ routes = pre[p].routes

C12_Witness ==
  /\ Done(1) /\ ai[1].err = SetMasterErr
  /\ UniverseV6(addrs) = {G1, G2}
  /\ Len(ai[1].groutes) = 2
  /\ Replayable(routes, ai[1].i.index) = {R1, R2}

RepairErrs == {"could not restore address", "failed getting routes", TimeoutErr}

\* C13: a failed AddrAdd, convergence query or RouteReplace, and the ninth
\* query that lists nothing, is the last call of addInterface, which returns
\* an error; after a failure of the address repair no later address was
\* re-added and no route replayed; and when the k-th RouteReplace fails, the
\* first k-1 routes of the snapshot are installed in the VRF's table and none
\* of the others is.
C13_StopsAtFirstFailure ==
  \A p \in Procs :
    LET L == calls[p]
        a == ai[p]
        RR == CallsOf(p, "RouteReplace")
    IN
    /\ \A n \in RepairCalls(p) \cup RR :
         ~L[n].ok => (n = Len(L) /\ Done(p) /\ a.err # NoErr)
    /\ a.err = TimeoutErr => (Done(p) /\ L[Len(L)].op = "RouteQuery")
    /\ a.err \in RepairErrs =>
         /\ RR = {}
         /\ \A m \in 1..Len(a.before) :
              m > a.k => ~\E n \in CallsOf(p, "AddrAdd") : L[n].addr = a.before[m]
    /\ \A r \in RR :
         ~L[r].ok =>
           LET k == Cardinality({m \in RR : m <= r}) IN
           \A j \in 1..Len(a.groutes) :
             ([a.groutes[j] EXCEPT !.table = a.vrf.table] \in routes) <=> (j < k)

C13_Witness ==
  /\ Done(1) /\ ai[1].err = "could not add route"
  /\ Cardinality(CallsOf(1, "RouteReplace")) = 2
  /\ Len(ai[1].groutes) = 2
  /\ CallsOf(1, "AddrAdd") # {}

\* The pauses of one convergence wait, in milliseconds.
Pauses == <<10, 20, 40, 80, 160, 320, 640, 1280>>

\* C14: the sleep that follows the n-th query of an address that listed
\* nothing, n = 1..8, lasts 10 ms * 2^(n-1); a sleep only ever follows such
\* a query, so there is none before the first query, none after a query
\* that listed a route and none after the ninth query.
C14_BackoffSchedule ==
  \A p \in Procs :
    LET L == calls[p]
        nth(q) == Cardinality({m \in QueriesFor(p, L[q].addr) : m <= q})
    IN
    /\ \A s \in CallsOf(p, "Sleep") :
         /\ s > 1 /\ L[s - 1].op = "RouteQuery" /\ L[s - 1].addr = L[s].addr
         /\ L[s - 1].ok /\ L[s - 1].n = 0
         /\ nth(s - 1) \in 1..8
         /\ L[s].ms = Pauses[nth(s - 1)]
    /\ \A q \in CallsOf(p, "RouteQuery") :
         q < Len(L) =>
           /\ (L[q].ok /\ L[q].n = 0) => (L[q + 1].op = "Sleep" /\ nth(q) <= 8)
           /\ L[q].n >= 1 => L[q + 1].op # "Sleep"

C14_Witness ==
  /\ Done(1)
  /\ \E x \in {G1, G2} :
       /\ Cardinality({s \in CallsOf(1, "Sleep") : calls[1][s].addr = x}) = 8
       /\ Cardinality(QueriesFor(1, x)) = 9
       /\ \E q \in QueriesFor(1, x) : calls[1][q].n >= 1

\* -------------------------------------------- claims: the diff of the repair

AllAddrs == {G1, G2, AsHost(G1), AsHost(G2), LL, HS, V4}

\* Invocation p has taken its after-snapshot.
AfterTaken(p) ==
  \E n, m \in CallsOf(p, "AddrList") : n < m /\ calls[p][m].ok

\* The address x has been passed to AddrAdd by invocation p.
PassedToAddrAdd(p, x) == \E n \in CallsOf(p, "AddrAdd") : calls[p][n].addr = x

\* x is missing after the enslavement: no universe-scope IPv6 address the
\* interface had at the after-snapshot has its IP and its prefix length.
MissingAfter(p, x) ==
  ~\E c \in UniverseV6(addrs \ ReAdded(p)) : c.ip = x.ip /\ c.plen = x.plen

\* The addresses of the before-snapshot the repair loop of p has come to.
ReachedByRepair(p) ==
  LET a == ai[p] IN
  {a.before[m] : m \in {n \in 1..Len(a.before) :
     \/ n < a.k
     \/ n = a.k /\ (a.pc \in {"query", "sleep"} \/ (Done(p) /\ a.err \in RepairErrs))}}

\* C15 as stated: AddrAdd is called for an address exactly when it is a
\* universe-scope IPv6 address of the before-snapshot and is missing after
\* the enslavement.
C15_ReAddedIffMissing ==
  \A p \in Procs :
    (Done(p) /\ AfterTaken(p)) =>
      \A x \in AllAddrs :
        PassedToAddrAdd(p, x) <=> (x \in UniverseV6(pre[p].addrs) /\ MissingAfter(p, x))

\* C15, amended: AddrAdd is called for an address exactly when it is a
\* universe-scope IPv6 address of the before-snapshot, is missing after the
\* enslavement (an address with its IP and another prefix length does not
\* count as present), and the repair loop has come to it, no earlier re-add
\* or convergence wait having failed; link-local, host-scope and IPv4
\* addresses are never passed to AddrAdd.
C15_ReAddedIffMissingAndReached ==
  \A p \in Procs :
    /\ CallsOf(p, "AddrAdd") # {} => AfterTaken(p)
    /\ AfterTaken(p) =>
         /\ SeqRange(ai[p].before) = UniverseV6(pre[p].addrs)
         /\ \A x \in AllAddrs :
              PassedToAddrAdd(p, x) <=>
                (x \in ReachedByRepair(p) /\ MissingAfter(p, x))

C15_Witness ==
  /\ Done(1)
  /\ ai[1].before = <<G2, G1>>
  /\ PassedToAddrAdd(1, G1) /\ ~PassedToAddrAdd(1, G2)
  /\ AsHost(G1) \in addrs /\ G2 \in addrs
  /\ LL \in pre[1].addrs /\ LL \notin addrs

\* ------------------------------------------ claims: createVRF with a table

\* C16: createVRF with a table ID other than 0 never calls the allocator and
\* fails only when a kernel call fails; when it succeeds the VRF has exactly
\* that table, whether or not a VRF of the namespace has it already.  The
\* allocator is called only when the table ID is 0.
C16_ExplicitTableUnchecked ==
  vrfOp.op = "createVRF" =>
    /\ vrfOp.allocs = 1 <=> (vrfOp.tableID = 0 /\ vrfOp.err # "createVRF: Failed to find links")
    /\ vrfOp.tableID # 0 =>
         /\ vrfOp.allocs = 0
         /\ vrfOp.err \in {NoErr, "createVRF: Failed to find links", "could not add VRF",
                           "could not set link up for VRF"}
         /\ vrfOp.err = NoErr =>
              /\ vrfOp.vrf.table = vrfOp.tableID
              /\ LinkByName(links, vrfOp.name).table = vrfOp.tableID

C16_Witness ==
  /\ vrfOp.op = "createVRF" /\ vrfOp.tableID # 0 /\ vrfOp.err = NoErr
  /\ links[Len(links)].name = vrfOp.name
  /\ \E l \in SeqRange(links) :
       l.kind = "vrf" /\ l.name # vrfOp.name /\ l.table = vrfOp.tableID

\* ------------------------------------------------------ claims: termination

\* C17: every invocation of addInterface returns, with success or an error,
\* whatever the kernel answers; it lists the addresses at most twice, lists
\* the routes and sets the master at most once, passes an address to AddrAdd
\* and a route to RouteReplace at most once, and queries at most 9 times for
\* one address.
C17_Terminates ==
  /\ [](\A p \in Procs :
          LET L == calls[p] IN
          /\ Cardinality(CallsOf(p, "AddrList")) <= 2
          /\ Cardinality(CallsOf(p, "RouteList")) <= 1
          /\ Cardinality(CallsOf(p, "LinkSetMaster")) <= 1
          /\ \A n, m \in CallsOf(p, "AddrAdd") : L[n].addr = L[m].addr => n = m
          /\ \A n, m \in CallsOf(p, "RouteReplace") : L[n].route = L[m].route => n = m
          /\ \A n \in CallsOf(p, "RouteQuery") : Cardinality(QueriesFor(p, L[n].addr)) <= 9)
  /\ \A p \in Procs : (ai[p].pc \notin {"idle", "done"}) ~> Done(p)

C17_Witness ==
  /\ Done(1) /\ ai[1].err = "failed getting routes"
  /\ Cardinality(CallsOf(1, "AddrAdd")) = 2
  /\ Cardinality(CallsOf(1, "RouteQuery")) = 18

\* ----------------------------------------------- claims: concurrent invocations

\* Invocation p found the interface without master.
PassedMasterCheck(p) == ai[p].i # NilLink /\ ai[p].i.master = 0

\* C18: the no-master check is made on the link as LinkByName returned it and
\* never again: an invocation issues LinkSetMaster only after it found no
\* master, and once it found none and took its two snapshots it issues
\* LinkSetMaster whatever master the interface has got in the meantime, so
\* that two invocations on one interface can both pass the check and both
\* set the master.
C18_CheckDoesNotSerialize ==
  \A p \in Procs :
    /\ CallsOf(p, "LinkSetMaster") # {} => PassedMasterCheck(p)
    /\ ( /\ PassedMasterCheck(p)
         /\ \E n \in CallsOf(p, "RouteList") : calls[p][n].ok
         /\ ai[p].pc # "setMaster" )
         => CallsOf(p, "LinkSetMaster") # {}

C18_Witness ==
  /\ \A p \in Procs :
       /\ PassedMasterCheck(p)
       /\ \E n \in CallsOf(p, "LinkSetMaster") : calls[p][n].ok
  /\ ai[1].vrf # ai[2].vrf
  /\ LinkByName(links, IntfName).master = ai[2].vrf.index
  /\ Succeeded(1)

\* ----------------------------------------------------- claims: no roll-back

\* C19: from the moment LinkSetMaster succeeded, and at the return of
\* addInterface with success or with any later error, the interface's master
\* is the VRF and every address addInterface re-added is on the interface.
C19_NoRollback ==
  \A p \in Procs :
    (\E n \in CallsOf(p, "LinkSetMaster") : calls[p][n].ok) =>
      /\ LinkByName(links, ai[p].intf).master = ai[p].vrf.index
      /\ ReAdded(p) \subseteq addrs

C19_Witness ==
  /\ Done(1) /\ ai[1].err = TimeoutErr
  /\ ReAdded(1) = {G1, G2}
  /\ LinkByName(links, IntfName).master = ai[1].vrf.index
  /\ Replayable(pre[1].routes, 1) # {}

\* ------------------------------------------------- claims: the tuning plugin

\* The last command is a cmdDel for the container ID and data directory of
\* the last cmdAdd, it found the interface and restoreBackup returned nil.
DelAfterAdd ==
  /\ tn.op = "cmdDel"
  /\ tn.ContainerID = tn.addID /\ tn.DataDir = tn.addDir
  /\ tn.link /\ tn.restored = NoErr

\* C20: after cmdAdd changed any of MAC, MTU, promiscuous mode, all-multicast
\* mode and transmit queue length, a cmdDel for the same container ID,
\* interface name and data directory leaves every attribute cmdAdd changed
\* with the value it had before cmdAdd.
C20_DelRestoresChanged ==
  DelAfterAdd =>
    \A a \in tn.addChanged : AttrOf(nic, a) = AttrOf(tn.addBefore, a)

\* ------------------------------------------------ claims: duplicated sysctls

\* The sysctl object with the keys data has a key more than once.
HasDuplicate(data) == \E i, j \in 1..Len(data) : i # j /\ data[i] = data[j]

\* C21: every call of validateSysctlConflictingKeys in a process returns the
\* error for duplicated keys exactly when the sysctl object of its document
\* has a key more than once.
C21_ErrorIffDuplicateInDocument ==
  sc.n >= 1 => (sc.err = DupErr <=> HasDuplicate(sc.data))

\* ------------------------------------------------ claims: backup before change

\* The configuration of the last cmdAdd asks for a change of an attribute.
AddConfigured ==
  \/ tn.addConf.Mac # "" \/ tn.addConf.Mtu # 0 \/ tn.addConf.Promisc
  \/ tn.addConf.Allmulti.set \/ tn.addConf.TxQLen.set

\* The errors createBackup returns.
BackupErrs ==
  {"failed to get", "failed to create backup directory", "failed to save file"}

AddBackupFile == BackupFile(tn.addDir, tn.addID, TuningIfName)

\* The backup file of the last cmdAdd holds, for every attribute the
\* configuration asks to change, the value the interface had when cmdAdd
\* began.
BackupHoldsValuesBefore ==
  /\ AddBackupFile \in DOMAIN fs.files
  /\ LET config == Unmarshal(fs.files[AddBackupFile]) IN
     /\ tn.addConf.Mac # "" =>
          config.Mac = HardwareAddrString(tn.addBefore.HardwareAddr)
     /\ tn.addConf.Promisc =>
          config.Promisc = PtrBool(tn.addBefore.Promisc # 0)
     /\ tn.addConf.Mtu # 0 => config.Mtu = tn.addBefore.MTU
     /\ tn.addConf.Allmulti.set =>
          config.Allmulti = PtrBool(tn.addBefore.Allmulti)
     /\ tn.addConf.TxQLen.set =>
          config.TxQLen = PtrInt(tn.addBefore.TxQLen)

\* C22: after a cmdAdd whose configuration asks for a change of MAC, MTU,
\* promiscuous mode, all-multicast mode or txQLen, either createBackup failed,
\* cmdAdd returned its error and no attribute of the interface was changed, or
\* the backup file holds the values the interface had before the first change
\* (a cmdAdd that returned before createBackup has changed nothing either).
C22_BackupBeforeChange ==
  (tn.op = "cmdAdd" /\ AddConfigured) =>
    IF tn.err \in BackupErrs \cup {"Required prevResult missing"}
      THEN nic = tn.addBefore /\ tn.addChanged = {}
      ELSE BackupHoldsValuesBefore

\* A cmdAdd that has changed every attribute, with the backup file written;
\* and one whose createBackup failed.
C22_Witness ==
  /\ tn.op = "cmdAdd"
  /\ AddConfigured
  /\ tn.err = NoErr
  /\ tn.addChanged = Attrs
  /\ nic # tn.addBefore
  /\ AddBackupFile \in DOMAIN fs.files

C22_WitnessBackupFails ==
  /\ tn.op = "cmdAdd"
  /\ AddConfigured
  /\ tn.err = "failed to save file"
  /\ nic = tn.addBefore

\* ------------------------------------------------ claims: restore of the backup

\* The backup file the last cmdDel looked for, and whether it was there.
DelBackupFile == BackupFile(tn.DataDir, tn.ContainerID, TuningIfName)
DelHadFile == DelBackupFile \in DOMAIN tn.delFs.files

\* The value the backup file records for attribute a.
FileValue(file, a) ==
  CASE a = "mac" -> [s |-> file[a].s, n |-> 0]
    [] a \in {"promisc", "allmulti"} -> [s |-> "", n |-> IF file[a].b THEN 1 ELSE 0]
    [] OTHER -> [s |-> "", n |-> file[a].n]

\* The order of the restores and their messages.
RestoreOrder == <<"mtu", "mac", "promisc", "allmulti", "txQLen">>
RestoreMsg(a) ==
  CASE a = "mtu" -> "failed to restore MTU"
    [] a = "mac" -> "failed to restore MAC address"
    [] a = "promisc" -> "failed to restore promiscuous mode"
    [] a = "allmulti" -> "failed to restore all-multicast mode"
    [] OTHER -> "failed to restore transmit queue length"

\* The messages of the failed restores, in order, joined by "; ".
RECURSIVE JoinedFailures(_, _)
JoinedFailures(failed, i) ==
  IF i > Len(RestoreOrder) THEN ""
  ELSE LET rest == JoinedFailures(failed, i + 1) IN
       IF RestoreOrder[i] \notin failed THEN rest
       ELSE IF rest = "" THEN RestoreMsg(RestoreOrder[i])
       ELSE RestoreMsg(RestoreOrder[i]) \o "; " \o rest

\* The attributes the backup file of the last cmdDel recorded, and the ones
\* among them whose restore the kernel refused.
DelRecorded == Recorded(tn.delFs.files, DelBackupFile)
DelFailed == DelRecorded \cap tn.delRefused

\* C23: after the restoreBackup of a cmdDel: (a) a backup file that has been
\* removed had every attribute recorded in it restored, and no error was
\* returned; (b) when the restore of some attributes failed, every other
\* recorded attribute has the recorded value all the same, the failed ones are
\* as they were, the error joins the messages of all failures, and the file is
\* kept; (c) when there was no backup file, no error is returned and neither
\* the interface nor the file system has changed.
C23_RestoreThenRemove ==
  tn.op = "cmdDel" =>
    /\ (DelHadFile /\ DelBackupFile \notin DOMAIN fs.files) =>
         /\ \A a \in DelRecorded :
              AttrOf(nic, a) = FileValue(tn.delFs.files[DelBackupFile], a)
         /\ tn.restored = NoErr
    /\ (DelHadFile /\ DelFailed # {}) =>
         /\ \A a \in DelRecorded \ DelFailed :
              AttrOf(nic, a) = FileValue(tn.delFs.files[DelBackupFile], a)
         /\ \A a \in DelFailed : AttrOf(nic, a) = AttrOf(tn.delBefore, a)
         /\ tn.restored = JoinedFailures(DelFailed, 1)
         /\ fs = tn.delFs
    /\ ~DelHadFile =>
         /\ tn.restored = NoErr
         /\ nic = tn.delBefore
         /\ fs = tn.delFs

\* A cmdDel whose first restore (MTU) failed, with later attributes restored
\* all the same and the file kept.
C23_Witness ==
  /\ tn.op = "cmdDel"
  /\ DelHadFile
  /\ "mtu" \in DelFailed
  /\ DelRecorded \ DelFailed # {}
  /\ nic # tn.delBefore
  /\ DelBackupFile \in DOMAIN fs.files

\* A cmdDel that restored all five attributes and removed the file; and one
\* that found no file.
C23_WitnessRemoved ==
  /\ tn.op = "cmdDel"
  /\ DelHadFile
  /\ DelRecorded = Attrs
  /\ nic # tn.delBefore
  /\ DelBackupFile \notin DOMAIN fs.files

C23_WitnessNoFile == tn.op = "cmdDel" /\ ~DelHadFile /\ tn.delFs.files # <<>>

====
